---- MODULE Spec2Model ----
(***************************************************************************)
(* Pothole reporter: the worker's POST /report, GET /image and GET /view   *)
(* handlers over the REPORTS key-value store, and the page script's        *)
(* address pipeline (getAddress / reverseGeo, interpolateAddress,          *)
(* estimateFromBlock) and sendReport flow, in the three variants of the    *)
(* repository (src/api/worker.ts, src/unnamed/part_001, part_002).         *)
(*                                                                         *)
(* Strings are sequences of characters or of indivisible non-empty chunks  *)
(* ("Main St"); the empty string is << >>.                                 *)
(***************************************************************************)
EXTENDS Integers, Sequences, FiniteSets, TLC

\* ---------------------------------------------------------------- bounds
\* POST /report requests served in one behaviour
MaxReq == 2
\* milliseconds the worker's clock advances in one behaviour
MaxTicks == 1
\* characters of Math.random().toString(36) after "0."
MaxFracLen == 1
\* places in a street search response
MaxPlaces == 2

\* ------------------------------------------------------ program constants
\* radix of Date.now().toString(36) and Math.random().toString(36)
Radix == 36
\* expirationTtl: 60 * 60 * 24 * 180
ExpirationTtl == 60 * 60 * 24 * 180

\* the three variants, named by the source tag their page script sends
PotholeLA == "POTHOLE LA"
PotholeHunter == "Pothole Hunter"
FixMyStreet == "Fix My Street"
Variants == {PotholeLA, PotholeHunter, FixMyStreet}

VARIABLES
  variant,   \* which of the three workers is deployed
  clock,     \* Date.now()
  REPORTS,   \* env.REPORTS: key -> [value, expirationTtl]
  req,       \* the POST /report requests: position, body, identifier, response
  lastGet,   \* the last GET /image/<id> or GET /view/<id> and its response
  loc,       \* the page's loc: null or the last GPS fix
  sendPc,    \* the page's position in sendReport / send
  rev,       \* the reverse lookup's outcome, once received
  srch,      \* the street search's outcome, once received
  interp,    \* what the call of interpolateAddress settled to
  addr,      \* what getAddress / reverseGeo resolved to
  posted,    \* the report the page POSTed to /report
  ui         \* the page's other variables, and the argument of getAddress

workerVars == <<clock, REPORTS, req, lastGet>>
pageVars == <<loc, sendPc, rev, srch, interp, addr, posted, ui>>
vars ==
  <<variant, clock, REPORTS, req, lastGet, loc, sendPc, rev, srch, interp, addr, posted>>

\* ---------------------------------------------------------------- strings
Min(a, b) == IF a < b THEN a ELSE b
Max(a, b) == IF a > b THEN a ELSE b

Digits36 ==
  <<"0","1","2","3","4","5","6","7","8","9","a","b","c","d","e","f","g","h",
    "i","j","k","l","m","n","o","p","q","r","s","t","u","v","w","x","y","z">>
Upper36 ==
  <<"0","1","2","3","4","5","6","7","8","9","A","B","C","D","E","F","G","H",
    "I","J","K","L","M","N","O","P","Q","R","S","T","U","V","W","X","Y","Z">>

\* Number.prototype.toString(36) of a non-negative integer
RECURSIVE toString36(_)
toString36(n) ==
  IF n < Radix THEN <<Digits36[n + 1]>>
  ELSE toString36(n \div Radix) \o <<Digits36[(n % Radix) + 1]>>

\* String.prototype.toUpperCase
toUpperCase(s) ==
  [i \in 1..Len(s) |->
     IF \E k \in 1..Radix : Digits36[k] = s[i]
     THEN Upper36[CHOOSE k \in 1..Radix : Digits36[k] = s[i]]
     ELSE s[i]]

\* String.prototype.slice(a, b) for 0 <= a <= b
slice(s, a, b) == SubSeq(s, a + 1, Min(b, Len(s)))

\* what Math.random().toString(36) can be: "0", or "0." and a fraction
RandDigits == {"k"}
RandomStrings ==
  {<<"0">>} \cup
  {<<"0", ".">> \o f : f \in UNION {[1..n -> RandDigits] : n \in 1..MaxFracLen}}

\* (mutant) the identifier without its time component
newReportId_NoTime(now, rnd) ==
  <<"L", "A", "-">> \o <<"-">> \o toUpperCase(slice(rnd, 2, 6))

\* `LA-${Date.now().toString(36).toUpperCase()}-${Math.random().toString(36).slice(2, 6).toUpperCase()}`
newReportId(now, rnd) ==
  <<"L", "A", "-">> \o toUpperCase(toString36(now)) \o <<"-">>
    \o toUpperCase(slice(rnd, 2, 6))

\* ------------------------------------------------------- numbers as text
DecimalDigits == <<"0","1","2","3","4","5","6","7","8","9">>

RECURSIVE digitsOf(_)
digitsOf(n) ==
  IF n < 10 THEN <<DecimalDigits[n + 1]>>
  ELSE digitsOf(n \div 10) \o <<DecimalDigits[(n % 10) + 1]>>

\* Number.prototype.toString() of an integer
toString(n) == IF n < 0 THEN <<"-">> \o digitsOf(-n) ELSE digitsOf(n)

\* the text of NaN.toString()
NaNText == <<"N", "a", "N">>

IsDigit(c) == \E k \in 1..10 : DecimalDigits[k] = c
DigitValue(c) == (CHOOSE k \in 1..10 : DecimalDigits[k] = c) - 1

RECURSIVE leadingDigits(_, _)
\* the value of the longest prefix of digits of s, continuing from acc
leadingDigits(s, acc) ==
  IF s = << >> \/ ~IsDigit(Head(s)) THEN acc
  ELSE leadingDigits(Tail(s), 10 * acc + DigitValue(Head(s)))

\* parseInt(s): an optional sign and the leading digits; NaN without a digit
parseInt(s) ==
  LET neg == s # << >> /\ Head(s) = "-"
      body == IF s # << >> /\ Head(s) \in {"-", "+"} THEN Tail(s) ELSE s
  IN IF body = << >> \/ ~IsDigit(Head(body))
     THEN [nan |-> TRUE, val |-> 0]
     ELSE [nan |-> FALSE,
           val |-> IF neg THEN -leadingDigits(body, 0) ELSE leadingDigits(body, 0)]

\* the % of JavaScript: the remainder has the sign of the dividend
JSRem(a, b) == IF a >= 0 THEN a % b ELSE -((-a) % b)

Abs(a) == IF a < 0 THEN -a ELSE a
Sign(a) == IF a > 0 THEN 1 ELSE IF a < 0 THEN -1 ELSE 0

\* String.prototype.toLowerCase
toLowerCase(s) ==
  [i \in 1..Len(s) |->
     IF \E k \in 1..Radix : Upper36[k] = s[i]
     THEN Digits36[CHOOSE k \in 1..Radix : Upper36[k] = s[i]]
     ELSE s[i]]

\* whether s ends with suffix t
EndsWith(s, t) ==
  Len(s) >= Len(t) /\ SubSeq(s, Len(s) - Len(t) + 1, Len(s)) = t

RECURSIVE join(_, _)
\* Array.prototype.join of a list of strings
join(parts, sep) ==
  IF parts = << >> THEN << >>
  ELSE IF Len(parts) = 1 THEN parts[1]
  ELSE parts[1] \o sep \o join(Tail(parts), sep)

\* Array.prototype.filter(Boolean) of a list of strings: drops the empty ones
RECURSIVE filterBoolean(_)
filterBoolean(parts) ==
  IF parts = << >> THEN << >>
  ELSE IF Head(parts) = << >> THEN filterBoolean(Tail(parts))
  ELSE <<Head(parts)>> \o filterBoolean(Tail(parts))

\* a || b on strings
Or(a, b) == IF a # << >> THEN a ELSE b

\* --------------------------------------------------------- request bodies
\* report.location: absent, present with lat/lng that are not numbers, or a
\* coordinate (in units of 0.0001 degree)
NoLocation == [present |-> FALSE, numeric |-> FALSE, lat |-> 0, lng |-> 0]
BadLocation == [present |-> TRUE, numeric |-> FALSE, lat |-> 0, lng |-> 0]
GoodLocation ==
  [present |-> TRUE, numeric |-> TRUE, lat |-> 340500, lng |-> -1182500]
\* the coordinate of another report
OtherLocation ==
  [present |-> TRUE, numeric |-> TRUE, lat |-> 341000, lng |-> -1183001]
Locations == {NoLocation, BadLocation, GoodLocation}

\* report.address: absent, present but not a string, or a string
NoAddress == [kind |-> "absent", text |-> << >>]
BadAddress == [kind |-> "number", text |-> << >>]
GoodAddress ==
  [kind |-> "string", text |-> <<"123 Main St", ",", " Los Angeles", ",", " CA">>]
Addresses == {NoAddress, BadAddress, GoodAddress}

\* members of the body named like the fields handleReport sets: absent, or
\* values of the client's choosing
NoExtra ==
  [present |-> FALSE, id |-> << >>, status |-> "", googleMapsUrl |-> << >>,
   imageUrl |-> << >>, viewUrl |-> << >>, submittedAt |-> 0]
ForgedExtra ==
  [present |-> TRUE, id |-> <<"LA-", "0", "-", "0">>, status |-> "resolved",
   googleMapsUrl |-> <<"https://elsewhere.example/maps">>,
   imageUrl |-> <<"https://elsewhere.example/image">>,
   viewUrl |-> <<"https://elsewhere.example/view">>, submittedAt |-> 0]

\* the request body: not JSON, the JSON value null, or an object
GarbageBody ==
  [kind |-> "garbage", location |-> NoLocation, address |-> NoAddress,
   image |-> "none", extra |-> NoExtra]
NullBody ==
  [kind |-> "null", location |-> NoLocation, address |-> NoAddress,
   image |-> "none", extra |-> NoExtra]
ObjectBody(l, a, img) ==
  [kind |-> "object", location |-> l, address |-> a, image |-> img,
   extra |-> NoExtra]
ForgedBody ==
  [ObjectBody(GoodLocation, GoodAddress, "imgA") EXCEPT !.extra = ForgedExtra]
Bodies ==
  {GarbageBody, NullBody, ForgedBody} \cup
  {ObjectBody(l, GoodAddress, "imgA") : l \in Locations} \cup
  {ObjectBody(GoodLocation, a, "imgA") : a \in Addresses} \cup
  {ObjectBody(OtherLocation, GoodAddress, "imgB")}

\* url.origin of the request: the worker answers under more than one host
MainOrigin == <<"https://potholes.example">>
OtherOrigin == <<"https://potholes.workers.example">>
\* the POST /report requests: every body under the main host, and the
\* well-formed one under the other host too
Posts ==
  {[body |-> b, origin |-> MainOrigin] : b \in Bodies} \cup
  {[body |-> ObjectBody(GoodLocation, GoodAddress, "imgA"), origin |-> OtherOrigin]}

\* ------------------------------------------------------------ handleReport
\* the statements of handleReport's try block that throw before the put is
\* issued: request.json() rejects; report.location.lat of null or of a
\* missing location; in Fix My Street generateFormalLetter (lat.toFixed)
\* runs before the put
ThrowsBeforePut(v, body) ==
  \/ body.kind = "garbage"
  \/ body.kind = "null"
  \/ ~body.location.present
  \/ v = FixMyStreet /\ ~body.location.numeric

\* the statements that throw after the put has resolved: generateFormalLetter
\* (lat.toFixed) in the two variants that call it after the put, and
\* report.address.split(',')
ThrowsAfterPut(v, body) ==
  \/ v # FixMyStreet /\ ~body.location.numeric
  \/ body.address.kind # "string"

\* the four decimals of a coordinate held in units of 0.0001 degree
fourDecimals(u) ==
  LET f == Abs(u) % 10000
  IN <<DecimalDigits[(f \div 1000) + 1], DecimalDigits[((f \div 100) % 10) + 1],
       DecimalDigits[((f \div 10) % 10) + 1], DecimalDigits[(f % 10) + 1]>>

RECURSIVE trimZeros(_)
trimZeros(ds) ==
  IF ds # << >> /\ ds[Len(ds)] = "0" THEN trimZeros(SubSeq(ds, 1, Len(ds) - 1))
  ELSE ds

\* `${x}` of a number x: the shortest decimal, so 34.0500 prints as 34.05
numberText(u) ==
  (IF u < 0 THEN <<"-">> ELSE << >>) \o digitsOf(Abs(u) \div 10000)
    \o (IF Abs(u) % 10000 = 0 THEN << >>
        ELSE <<".">> \o trimZeros(fourDecimals(u)))

\* x.toFixed(6)
toFixed6(u) ==
  (IF u < 0 THEN <<"-">> ELSE << >>) \o digitsOf(Abs(u) \div 10000)
    \o <<".">> \o fourDecimals(u) \o <<"0", "0">>

\* `${report.location.lat}`: a number's text, or the string sent in its place
coordText(l, u) == IF l.numeric THEN numberText(u) ELSE <<"north">>

\* `${report.address}`
addressText(a) ==
  IF a.kind = "string" THEN a.text
  ELSE IF a.kind = "absent" THEN <<"undefined">>
  ELSE <<"7">>

\* `https://www.google.com/maps?q=${report.location.lat},${report.location.lng}`
googleMapsUrl(l) ==
  <<"https://www.google.com/maps?q=">> \o coordText(l, l.lat) \o <<",">>
    \o coordText(l, l.lng)

\* (mutant) the image link without the identifier
imageUrl_NoId(v, origin, id) ==
  IF v = FixMyStreet THEN << >> ELSE origin \o <<"/image/">>

\* `${origin}/image/${reportId}`; Fix My Street builds no such link
imageUrl(v, origin, id) ==
  IF v = FixMyStreet THEN << >> ELSE origin \o <<"/image/">> \o id

\* `${origin}/view/${reportId}`; Fix My Street builds no such link
viewUrl(v, origin, id) ==
  IF v = FixMyStreet THEN << >> ELSE origin \o <<"/view/">> \o id

\* (mutant) a letter that gives the coordinates in the place of the address
generateFormalLetter_NoAddress(v, body, id, origin) ==
  <<"Report ID: ">> \o id
    \o <<"GPS COORDINATES: ">> \o toFixed6(body.location.lat) \o <<", ">>
    \o toFixed6(body.location.lng)
    \o <<"GOOGLE MAPS: ">> \o googleMapsUrl(body.location)

\* generateFormalLetter / generateFormalLetterWithImage, for a location whose
\* lat and lng are numbers (toFixed throws otherwise); the date line and the
\* fixed paragraphs are left out
generateFormalLetter(v, body, id, origin) ==
  IF v = FixMyStreet
  THEN <<"Report ID: ">> \o id
         \o <<"ADDRESS: ">> \o addressText(body.address)
         \o <<"GPS COORDINATES: ">> \o toFixed6(body.location.lat) \o <<", ">>
         \o toFixed6(body.location.lng)
         \o <<"GOOGLE MAPS LINK: ">> \o googleMapsUrl(body.location)
         \o <<"Report ID: ">> \o id
  ELSE <<"Report ID: ">> \o id
         \o <<"STREET ADDRESS: ">> \o addressText(body.address)
         \o <<"GPS COORDINATES: ">> \o toFixed6(body.location.lat) \o <<", ">>
         \o toFixed6(body.location.lng)
         \o <<"GOOGLE MAPS: ">> \o googleMapsUrl(body.location)
         \o <<"PHOTO OF POTHOLE: ">> \o imageUrl(v, origin, id)
         \o <<"FULL REPORT WITH PHOTO: ">> \o viewUrl(v, origin, id)
         \o <<"Report ID: ">> \o id

\* (mutant) the record with its image and view links exchanged
fullReport_SwappedLinks(v, body, id, now, origin) ==
  [report |-> body, id |-> id,
   googleMapsUrl |-> googleMapsUrl(body.location),
   imageUrl |-> IF v = FixMyStreet THEN body.extra.imageUrl
                ELSE viewUrl(v, origin, id),
   viewUrl |-> IF v = FixMyStreet THEN body.extra.viewUrl
               ELSE imageUrl(v, origin, id),
   formalLetter |-> IF v = FixMyStreet
                    THEN generateFormalLetter(v, body, id, origin) ELSE << >>,
   status |-> "pending_submission", submittedAt |-> now]

\* (mutant) the body spread after the server's fields: { id, ..., ...report }
fullReport_ClientWins(v, body, id, now, origin) ==
  [report |-> body,
   id |-> IF body.extra.present THEN body.extra.id ELSE id,
   googleMapsUrl |-> IF body.extra.present THEN body.extra.googleMapsUrl
                     ELSE googleMapsUrl(body.location),
   imageUrl |-> IF v = FixMyStreet \/ body.extra.present THEN body.extra.imageUrl
                ELSE imageUrl(v, origin, id),
   viewUrl |-> IF v = FixMyStreet \/ body.extra.present THEN body.extra.viewUrl
               ELSE viewUrl(v, origin, id),
   formalLetter |-> IF v = FixMyStreet
                    THEN generateFormalLetter(v, body, id, origin) ELSE << >>,
   status |-> IF body.extra.present THEN body.extra.status
              ELSE "pending_submission",
   submittedAt |-> IF body.extra.present THEN body.extra.submittedAt ELSE now]

\* const fullReport = { ...report, id: reportId, googleMapsUrl, imageUrl,
\* viewUrl, status, submittedAt }: the members of the body come first and the
\* fields set after them replace members of the same name. Fix My Street
\* stores the letter and sets no image or view link, so that a member of
\* that name in the body stays
fullReport(v, body, id, now, origin) ==
  [report |-> body, id |-> id,
   googleMapsUrl |-> googleMapsUrl(body.location),
   imageUrl |-> IF v = FixMyStreet THEN body.extra.imageUrl
                ELSE imageUrl(v, origin, id),
   viewUrl |-> IF v = FixMyStreet THEN body.extra.viewUrl
               ELSE viewUrl(v, origin, id),
   formalLetter |-> IF v = FixMyStreet
                    THEN generateFormalLetter(v, body, id, origin) ELSE << >>,
   status |-> "pending_submission", submittedAt |-> now]

NoResponse ==
  [success |-> FALSE, status |-> 0, reportId |-> << >>, googleMapsUrl |-> << >>,
   imageUrl |-> << >>, viewUrl |-> << >>, formalLetter |-> << >>, address |-> << >>]
\* the catch block: { success: false, error: "Failed to process report" }, 500
FailureResponse == [NoResponse EXCEPT !.status = 500]
\* the response at the end of the try block
SuccessResponse(v, r) ==
  [success |-> TRUE, status |-> 200, reportId |-> r.id,
   googleMapsUrl |-> googleMapsUrl(r.body.location),
   imageUrl |-> imageUrl(v, r.origin, r.id),
   viewUrl |-> viewUrl(v, r.origin, r.id),
   formalLetter |-> generateFormalLetter(v, r.body, r.id, r.origin),
   address |-> r.body.address.text]

IdleRequest ==
  [pc |-> "idle", body |-> GarbageBody, origin |-> << >>, id |-> << >>, now |-> 0,
   rnd |-> << >>, put |-> "none", resp |-> NoResponse]

\* handleReport from its entry to the await of env.REPORTS.put
\* (requests are numbered in their order of arrival)
HandleReportStart(p) ==
  /\ req[p].pc = "idle"
  /\ IF p = 1 THEN TRUE ELSE req[p - 1].pc # "idle"
  /\ \E post \in Posts, rnd \in RandomStrings :
       req' = [req EXCEPT ![p] =
         IF ThrowsBeforePut(variant, post.body)
         THEN [pc |-> "done", body |-> post.body, origin |-> post.origin,
               id |-> << >>, now |-> clock, rnd |-> << >>, put |-> "none",
               resp |-> FailureResponse]
         ELSE [pc |-> "putting", body |-> post.body, origin |-> post.origin,
               id |-> newReportId(clock, rnd), now |-> clock, rnd |-> rnd,
               put |-> "none", resp |-> NoResponse]]
  /\ UNCHANGED <<variant, clock, REPORTS, lastGet, pageVars>>

\* (mutant) a put that writes the value under every key of the store
StorePut_Clobber(store, key, value) ==
  [k \in DOMAIN store \cup {key} |->
     [value |-> value, expirationTtl |-> ExpirationTtl]]

\* (mutant) a put that resolves without writing
StorePut_Dropped(store, key, value) == store

\* (mutant) a put without its expirationTtl option
StorePut_NoTtl(store, key, value) ==
  (key :> [value |-> value, expirationTtl |-> 0]) @@ store

\* env.REPORTS.put(reportId, JSON.stringify(fullReport), {expirationTtl})
StorePut(store, key, value) ==
  (key :> [value |-> value, expirationTtl |-> ExpirationTtl]) @@ store

\* the put settles: the store has written the value, or the put rejects
REPORTS_put(p, ok) ==
  /\ req[p].pc = "putting"
  /\ REPORTS' = IF ok
                THEN StorePut(REPORTS, req[p].id,
                              fullReport(variant, req[p].body, req[p].id,
                                         req[p].now, req[p].origin))
                ELSE REPORTS
  /\ req' = [req EXCEPT ![p].pc = "settled",
                        ![p].put = IF ok THEN "ok" ELSE "failed"]
  /\ UNCHANGED <<variant, clock, lastGet, pageVars>>

\* (mutant) the put outside the try block's reach: its rejection is ignored
ResponseAfterPut_IgnoresPut(v, r) ==
  IF ThrowsAfterPut(v, r.body) THEN FailureResponse ELSE SuccessResponse(v, r)

\* the response handleReport gives once the put has settled
ResponseAfterPut(v, r) ==
  IF r.put = "failed" \/ ThrowsAfterPut(v, r.body)
  THEN FailureResponse
  ELSE SuccessResponse(v, r)

\* handleReport from the settling of the put to its return
HandleReportResume(p) ==
  /\ req[p].pc = "settled"
  /\ req' = [req EXCEPT ![p].pc = "done",
                        ![p].resp = ResponseAfterPut(variant, req[p])]
  /\ UNCHANGED <<variant, clock, REPORTS, lastGet, pageVars>>

\* ------------------------------------------------- serveImage, serveReportPage
NoGet == [route |-> "none", found |-> FALSE, kvOk |-> TRUE, status |-> 0]

\* whether fetch routes /image/ and /view/ (Fix My Street has neither route
\* and answers every other path with the page)
HasRoutes(v) == v # FixMyStreet

\* (mutant) serveImage without its not-found check: JSON.parse(null).image throws
serveImage_NoCheck(store, reportId, kvOk) ==
  IF ~kvOk THEN 500
  ELSE IF reportId \notin DOMAIN store THEN 500
  ELSE 200

\* const data = await env.REPORTS.get(reportId);
\* if (!data) return new Response("Not found", { status: 404 });
\* a get that rejects leaves the handler by an uncaught exception (500)
serveImage(store, reportId, kvOk) ==
  IF ~kvOk THEN 500
  ELSE IF reportId \notin DOMAIN store THEN 404
  ELSE 200

\* serveReportPage also formats report.location.lat.toFixed(6), which throws
\* for a stored record whose coordinates are not numbers
serveReportPage(store, reportId, kvOk) ==
  IF ~kvOk THEN 500
  ELSE IF reportId \notin DOMAIN store THEN 404
  ELSE IF ~store[reportId].value.report.location.numeric THEN 500
  ELSE 200

\* url.pathname of a link: what follows the origin
pathname(url) == Tail(url)
\* url.pathname.startsWith(prefix)
startsWith(path, prefix) == path # << >> /\ Head(path) = prefix
\* url.pathname.replace(prefix, ""), for a path that starts with the prefix
routedId(path) == Tail(path)

\* the identifiers a GET may name: those the worker can generate now
ProbeIds == {newReportId(clock, r) : r \in RandomStrings}

\* fetch for GET /image/<id>
fetchImage(id, kvOk) ==
  /\ lastGet' = [route |-> "image", found |-> id \in DOMAIN REPORTS, kvOk |-> kvOk,
                 status |-> IF HasRoutes(variant)
                            THEN serveImage(REPORTS, id, kvOk) ELSE 200]
  /\ UNCHANGED <<variant, clock, REPORTS, req, pageVars>>

\* fetch for GET /view/<id>
fetchView(id, kvOk) ==
  /\ lastGet' = [route |-> "view", found |-> id \in DOMAIN REPORTS, kvOk |-> kvOk,
                 status |-> IF HasRoutes(variant)
                            THEN serveReportPage(REPORTS, id, kvOk) ELSE 200]
  /\ UNCHANGED <<variant, clock, REPORTS, req, pageVars>>

\* a millisecond passes
Tick ==
  /\ clock < Radix - 1 + MaxTicks
  /\ clock' = clock + 1
  /\ UNCHANGED <<variant, REPORTS, req, lastGet, pageVars>>

\* -------------------------------------------------------- estimateFromBlock
\* coordinates are in units of 0.0001 degree
\* const dtLat = 34.0522
dtLat == 340522
\* const dtLng = -118.2437
dtLng == -1182437
\* const blockSize = 0.002
blockSize == 20
\* Math.floor(Math.random() * 50)
JitterRange == 50

ApproxTag == <<" (approx)">>

\* streetName.match(/^(N|S|North|South)/i) || streetName.match(/(Ave|Avenue|Way|Place|Pl)$/i)
isNS(streetName) ==
  LET low == toLowerCase(streetName)
  IN \/ low # << >> /\ Head(low) \in {"n", "s"}
     \/ EndsWith(low, <<"a","v","e">>)
     \/ EndsWith(low, <<"a","v","e","n","u","e">>)
     \/ EndsWith(low, <<"w","a","y">>)
     \/ EndsWith(low, <<"p","l","a","c","e">>)
     \/ EndsWith(low, <<"p","l">>)

\* Math.round(100 + blocks * 100) with blocks = |delta| / blockSize:
\* 100 * |delta| / 20 is the integer 5 * |delta|
blockEstimate(l, streetName) ==
  LET delta == IF isNS(streetName) THEN Abs(l.lng - dtLng) ELSE Abs(l.lat - dtLat)
  IN 100 + (100 * delta) \div blockSize

\* (mutant) the estimate left as it is, not rounded to a multiple of 10
roundToTen_Skipped(estimate) == estimate

\* Math.round(estimate / 10) * 10 (halves round up)
roundToTen(estimate) == ((estimate + 5) \div 10) * 10

\* estimateFromBlock(loc, streetName), jitter = Math.floor(Math.random() * 50)
estimateFromBlock(l, streetName, jitter) ==
  toString(roundToTen(blockEstimate(l, streetName)) + jitter) \o ApproxTag

\* ------------------------------------------------------- interpolateAddress
\* places.filter(p => p.address && p.address.house_number)
\*   .map(p => ({num: parseInt(...), lat: parseFloat(p.lat), lng: parseFloat(p.lon)}))
\*   .filter(p => !isNaN(p.num))
RECURSIVE withNumbers(_)
withNumbers(places) ==
  IF places = << >> THEN << >>
  ELSE LET p == Head(places)
           n == parseInt(p.house_number)
       IN IF p.hasAddress /\ p.house_number # << >> /\ ~n.nan
          THEN <<[num |-> n.val, lat |-> p.lat, lng |-> p.lon]>>
                 \o withNumbers(Tail(places))
          ELSE withNumbers(Tail(places))

\* the square of Math.hypot(a.lat - b.lat, a.lng - b.lng)
dist2(a, b) == (a.lat - b.lat) * (a.lat - b.lat) + (a.lng - b.lng) * (a.lng - b.lng)

\* one element inserted into a list sorted by distance to l, after its equals
RECURSIVE insertByDist(_, _, _)
insertByDist(sorted, x, l) ==
  IF sorted = << >> THEN <<x>>
  ELSE IF dist2(x, l) < dist2(Head(sorted), l) THEN <<x>> \o sorted
  ELSE <<Head(sorted)>> \o insertByDist(Tail(sorted), x, l)

\* (mutant) the candidates left in the order of the response
sortByDist_Unsorted(list, l) == list

\* withNumbers.sort((a, b) => distA - distB): a stable sort
RECURSIVE sortByDist(_, _)
sortByDist(list, l) ==
  IF list = << >> THEN << >>
  ELSE insertByDist(sortByDist(SubSeq(list, 1, Len(list) - 1), l),
                    list[Len(list)], l)

\* whether a * sqrt(our2 / tot2) >= m, for tot2 > 0
ScaledRootAtLeast(a, our2, tot2, m) ==
  IF a >= 0
  THEN m <= 0 \/ a * a * our2 >= m * m * tot2
  ELSE m <= 0 /\ a * a * our2 <= m * m * tot2

\* the largest k in lo..hi with k - 1/2 <= n1 + (n2 - n1) * sqrt(our2 / tot2),
\* by bisection (the condition holds at lo and is monotone in k)
RECURSIVE largestRounded(_, _, _, _, _, _)
largestRounded(lo, hi, n1, n2, our2, tot2) ==
  IF lo >= hi THEN lo
  ELSE LET mid == (lo + hi + 1) \div 2
       IN IF ScaledRootAtLeast(2 * (n2 - n1), our2, tot2, 2 * (mid - n1) - 1)
          THEN largestRounded(mid, hi, n1, n2, our2, tot2)
          ELSE largestRounded(lo, mid - 1, n1, n2, our2, tot2)

\* (mutant) the ratio of the squared distances (no square root taken)
roundInterpolated_SquaredRatio(n1, n2, our2, tot2) ==
  IF our2 >= tot2 THEN n2
  ELSE (2 * (n1 * tot2 + (n2 - n1) * our2) + tot2) \div (2 * tot2)

\* Math.round(n1 + (n2 - n1) * ratio), ratio = Math.min(1, Math.max(0, ourDist / totalDist)),
\* for totalDist > 0: the integer k with k - 1/2 <= n1 + (n2 - n1) * ratio < k + 1/2
roundInterpolated(n1, n2, our2, tot2) ==
  IF our2 >= tot2 THEN n2
  ELSE largestRounded(Min(n1, n2), Max(n1, n2), n1, n2, our2, tot2)

\* the sign of (loc.lat - p1.lat) * cos(perpendicular) + (loc.lng - p1.lng) * sin(perpendicular)
\* with perpendicular = atan2(p2.lng - p1.lng, p2.lat - p1.lat) + PI / 2:
\* cos(perpendicular) = -dlng / |d| and sin(perpendicular) = dlat / |d|.
\* Where the exact value is 0 (the fix on the line) the floating-point sum
\* decides: it is 0 for a fix on p1 (0 * c + 0 * s); on a line along the
\* latitude axis it is (loc.lat - p1.lat) * Math.cos(perpendicular), with
\* Math.cos(PI / 2) = 6.1e-17 and Math.cos(PI + PI / 2) = -1.8e-16; on a line
\* along the longitude axis it is (loc.lng - p1.lng) * Math.sin(perpendicular),
\* with Math.sin(PI) = 1.2e-16 and Math.sin(0) = 0; on an oblique line the two
\* rounded products can cancel or not, and fp is the sign that results.
\* For coincident p1 and p2 atan2(0, 0) is 0 and the sum is
\* (loc.lat - p1.lat) * 6.1e-17 + (loc.lng - p1.lng).
sideOf(l, p1, p2, fp) ==
  LET dlat == p2.lat - p1.lat
      dlng == p2.lng - p1.lng
      cross == dlat * (l.lng - p1.lng) - dlng * (l.lat - p1.lat)
  IN IF dlat = 0 /\ dlng = 0
     THEN IF l.lng # p1.lng THEN Sign(l.lng - p1.lng) ELSE Sign(l.lat - p1.lat)
     ELSE IF cross # 0 THEN Sign(cross)
     ELSE IF l.lat = p1.lat /\ l.lng = p1.lng THEN 0
     ELSE IF dlng = 0 THEN Sign(dlat) * Sign(l.lat - p1.lat)
     ELSE IF dlat = 0 THEN (IF dlng > 0 THEN Sign(l.lng - p1.lng) ELSE 0)
     ELSE fp

\* (mutant) the parity adjustment stepping down
adjustParity_StepsDown(interpolated, side) ==
  IF side > 0 /\ JSRem(interpolated, 2) = 0 THEN interpolated - 1
  ELSE IF side < 0 /\ JSRem(interpolated, 2) = 1 THEN interpolated - 1
  ELSE interpolated

\* if (side > 0 && interpolated % 2 === 0) interpolated++;
\* else if (side < 0 && interpolated % 2 === 1) interpolated++;
adjustParity(interpolated, side) ==
  IF side > 0 /\ JSRem(interpolated, 2) = 0 THEN interpolated + 1
  ELSE IF side < 0 /\ JSRem(interpolated, 2) = 1 THEN interpolated + 1
  ELSE interpolated

\* the try block of interpolateAddress from the sort on, for two or more
\* candidates (p1 === p2 never holds for two array elements)
interpolateSorted(l, cands, fp) ==
  LET sorted == sortByDist(cands, l)
      p1 == sorted[1]
      p2 == sorted[2]
      tot2 == dist2(p2, p1)
      our2 == dist2(l, p1)
  IN IF tot2 = 0 /\ our2 = 0
     THEN NaNText                  \* 0 / 0: ratio, interpolated are NaN
     ELSE IF tot2 = 0
     THEN toString(adjustParity(p2.num, sideOf(l, p1, p2, fp)))  \* ratio = min(1, Infinity)
     ELSE toString(adjustParity(roundInterpolated(p1.num, p2.num, our2, tot2),
                                sideOf(l, p1, p2, fp)))

\* what an async function settles to: a returned string, or a thrown error
Returned(text) == [threw |-> FALSE, text |-> text]
Thrown == [threw |-> TRUE, text |-> << >>]

\* (mutant) interpolateAddress without its try/catch
interpolateAddress_NoCatch(l, streetName, res, jitter, fp) ==
  IF res.kind # "list" THEN Thrown
  ELSE IF Len(withNumbers(res.places)) < 2
  THEN Returned(estimateFromBlock(l, streetName, jitter))
  ELSE Returned(interpolateSorted(l, withNumbers(res.places), fp))

\* (mutant) interpolateAddress falling back only for an empty list
\* (withNumbers.length < 1): one candidate is both p1 and p2
interpolateAddress_OneIsEnough(l, streetName, res, jitter, fp) ==
  IF res.kind # "list" THEN Returned(estimateFromBlock(l, streetName, jitter))
  ELSE IF Len(withNumbers(res.places)) < 1
  THEN Returned(estimateFromBlock(l, streetName, jitter))
  ELSE IF Len(withNumbers(res.places)) = 1
  THEN Returned(toString(withNumbers(res.places)[1].num))
  ELSE Returned(interpolateSorted(l, withNumbers(res.places), fp))

\* interpolateAddress(loc, streetName) given the search's outcome: the fetch
\* rejects ("network"), res.json() rejects ("parse"), the body is not an array
\* of objects ("notarray": places.filter or p.address throws), or a list;
\* every throw of the try block lands in the catch block's estimateFromBlock
interpolateAddress(l, streetName, res, jitter, fp) ==
  IF res.kind # "list" THEN Returned(estimateFromBlock(l, streetName, jitter))
  ELSE IF Len(withNumbers(res.places)) < 2
  THEN Returned(estimateFromBlock(l, streetName, jitter))
  ELSE Returned(interpolateSorted(l, withNumbers(res.places), fp))

\* ------------------------------------------------- getAddress / reverseGeo
MainSt == <<"M","a","i","n"," ","S","t">>
OakAve == <<"O","a","k"," ","A","v","e">>

\* outcomes of the reverse lookup: the fetch rejects, res.json() rejects, the
\* body is the JSON value null, or a JSON object (an absent member and an
\* empty one are both << >>; an error body has no member set)
RevFailure(k) ==
  [kind |-> k, road |-> << >>, street |-> << >>, house_number |-> << >>,
   neighbourhood |-> << >>, suburb |-> << >>, city |-> << >>, postcode |-> << >>,
   display_name |-> << >>]
NoRev == RevFailure("none")
RevOutcomes ==
  {RevFailure(k) : k \in {"network", "parse", "null"}} \cup
  [kind : {"json"}, road : {<< >>, MainSt}, street : {<< >>, OakAve},
   house_number : {<< >>, <<"1", "2">>}, neighbourhood : {<< >>, <<"Downtown">>},
   suburb : {<< >>, <<"Westlake">>}, city : {<< >>, <<"Glendale">>},
   postcode : {<< >>, <<"90012">>},
   display_name : {<< >>, <<"City Hall, Los Angeles">>}]

\* the fixed default of the variant
DefaultAddress(v) ==
  IF v = FixMyStreet THEN <<"Bel Air, Los Angeles, CA">> ELSE <<"Los Angeles, CA">>

Comma == <<", ">>

\* const road = addr.road || addr.street || ''
roadOf(r) == Or(r.road, r.street)

\* (mutant) interpolateAddress called whatever the house number
needsSearch_Always(v, r) ==
  v = PotholeLA /\ r.kind = "json" /\ roadOf(r) # << >>

\* whether getAddress calls interpolateAddress: a road and no house number
needsSearch(v, r) ==
  v = PotholeLA /\ r.kind = "json" /\ roadOf(r) # << >> /\ r.house_number = << >>

\* (mutant) the suburb preferred to the neighbourhood
composeAddress_SuburbFirst(r, streetNum) ==
  join(filterBoolean(
         <<IF streetNum # << >> THEN streetNum \o <<" ">> \o roadOf(r) ELSE roadOf(r),
           Or(r.suburb, r.neighbourhood),
           Or(r.city, <<"Los Angeles">>),
           <<"CA">>,
           r.postcode>>), Comma)

\* getAddress from `const parts = []` to `return parts.join(', ')`
composeAddress(r, streetNum) ==
  join(filterBoolean(
         <<IF streetNum # << >> THEN streetNum \o <<" ">> \o roadOf(r) ELSE roadOf(r),
           Or(r.neighbourhood, r.suburb),
           Or(r.city, <<"Los Angeles">>),
           <<"CA">>,
           r.postcode>>), Comma)

\* (mutant) getAddress without its try/catch
getAddress_NoCatch(r, streetNum) ==
  IF r.kind # "json" \/ streetNum.threw THEN Thrown
  ELSE IF roadOf(r) = << >>
  THEN Returned(Or(r.display_name, DefaultAddress(PotholeLA)))
  ELSE Returned(composeAddress(r, streetNum.text))

\* (mutant) getAddress returning data.display_name without its default
getAddress_NoDefault(r, streetNum) ==
  IF r.kind # "json" \/ streetNum.threw THEN Returned(DefaultAddress(PotholeLA))
  ELSE IF roadOf(r) = << >> THEN Returned(r.display_name)
  ELSE Returned(composeAddress(r, streetNum.text))

\* getAddress(l) of POTHOLE LA for a non-null l; streetNum is the house number
\* of the reverse lookup, or what the await of interpolateAddress settled to.
\* A rejected fetch, a rejected res.json(), data.address of null and a
\* rejected interpolateAddress all land in the catch block
getAddress(r, streetNum) ==
  IF r.kind # "json" \/ streetNum.threw THEN Returned(DefaultAddress(PotholeLA))
  ELSE IF roadOf(r) = << >>
  THEN Returned(Or(r.display_name, DefaultAddress(PotholeLA)))
  ELSE Returned(composeAddress(r, streetNum.text))

\* Math.abs(Math.round(l.lng * 10000) % 10000)
approxNum(l) == Abs(JSRem(l.lng, 10000))

\* reverseGeo(l) of Pothole Hunter for a non-null l
reverseGeoHunter(l, r) ==
  IF r.kind # "json" THEN Returned(DefaultAddress(PotholeHunter))
  ELSE LET streetPart ==
             IF r.house_number # << >> /\ r.road # << >>
             THEN r.house_number \o <<" ">> \o r.road
             ELSE IF r.road # << >>
             THEN toString(approxNum(l)) \o <<" ">> \o r.road \o ApproxTag
             ELSE << >>
           parts == filterBoolean(<<streetPart, Or(r.neighbourhood, r.suburb),
                                    Or(r.city, <<"Los Angeles">>), <<"CA">>,
                                    r.postcode>>)
       IN Returned(Or(Or(join(parts, Comma), r.display_name),
                      DefaultAddress(PotholeHunter)))

\* reverseGeo(l) of Fix My Street for a non-null l
reverseGeoFix(l, r) ==
  IF r.kind # "json" THEN Returned(DefaultAddress(FixMyStreet))
  ELSE LET parts == filterBoolean(<<r.house_number, r.road,
                                    Or(r.neighbourhood, r.suburb),
                                    Or(r.city, <<"Los Angeles">>), <<"CA">>,
                                    r.postcode>>)
       IN Returned(Or(Or(join(parts, Comma), r.display_name),
                      DefaultAddress(FixMyStreet)))

\* the address of the variant once the reverse lookup has settled, when no
\* street search follows
resolveAddress(v, l, r) ==
  IF v = PotholeLA THEN getAddress(r, Returned(r.house_number))
  ELSE IF v = PotholeHunter THEN reverseGeoHunter(l, r)
  ELSE reverseGeoFix(l, r)

\* ------------------------------------------------------- sendReport / send
NoLoc == [known |-> FALSE, lat |-> 0, lng |-> 0]
Fix(lat, lng) == [known |-> TRUE, lat |-> lat, lng |-> lng]
\* the fixes of the model: on a candidate point, between two candidates,
\* beside their line, and on their line beyond the first
PageLocs ==
  {Fix(340500, -1182500), Fix(340501, -1182500), Fix(340501, -1182499),
   Fix(340499, -1182500)}

\* location: loc || { lat: 34.0825, lng: -118.4476 } (Fix My Street)
FallbackLocation == Fix(340825, -1184476)

NoSearch == [kind |-> "none", places |-> << >>]
\* the places of a search response: an entry without address details, one
\* whose house number is no number, or one with a number and a position
Place(h, lat, lon) ==
  [hasAddress |-> h # << >>, house_number |-> h, lat |-> lat, lon |-> lon]
HouseNumbers == {<<"1","0","0">>, <<"2","0","1">>}
PlaceCoords == {<<340500, -1182500>>, <<340502, -1182500>>, <<340500, -1182498>>}
\* a house number that parseInt reads as a negative odd number
NegativeNumber == <<"-", "7">>
PlaceOptions ==
  {Place(<< >>, 340500, -1182500), Place(<<"A">>, 340500, -1182500)} \cup
  {Place(h, c[1], c[2]) : h \in HouseNumbers, c \in PlaceCoords} \cup
  {Place(NegativeNumber, 340500, -1182500), Place(NegativeNumber, 340502, -1182500)}
SearchOutcomes ==
  {[kind |-> k, places |-> << >>] : k \in {"network", "parse", "notarray"}} \cup
  {[kind |-> "list", places |-> ps] :
     ps \in UNION {[1..n -> PlaceOptions] : n \in 0..MaxPlaces}}

NotPosted == [sent |-> FALSE, location |-> NoLoc, address |-> << >>]
\* const report = { type, location: loc, timestamp, image, address: addr, source }
\* and fetch('/report', { method: 'POST', body: JSON.stringify(report) })
Report(v, l, a) ==
  [sent |-> TRUE,
   location |-> IF v = FixMyStreet /\ ~l.known THEN FallbackLocation ELSE l,
   address |-> a]

NoInterp == [called |-> FALSE, threw |-> FALSE, text |-> << >>]
Interp(o) == [called |-> TRUE, threw |-> o.threw, text |-> o.text]

\* sendReport / send once `await getAddress(loc)` has settled to o: a thrown
\* error rejects sendReport (the await is outside its try block), a returned
\* address is posted
afterAddress(o) ==
  IF o.threw
  THEN /\ sendPc' = "rejected"
       /\ UNCHANGED <<addr, posted>>
  ELSE /\ addr' = o.text
       /\ posted' = Report(variant, loc, o.text)
       /\ sendPc' = "posting"

\* the page's variables other than loc: stream and photoData (TRUE for an
\* object, FALSE for null), cameraReady, gpsReady, hasPhoto, the capture
\* button's disabled property, the screen shown, currentReport, and arg, the
\* location passed to the getAddress / reverseGeo call in progress. Fix My
\* Street has no cameraReady and no gpsReady and never disables its button.
UiStart(v) ==
  [stream |-> FALSE, cameraReady |-> FALSE, gpsReady |-> FALSE,
   photoData |-> FALSE, hasPhoto |-> FALSE, disabled |-> v # FixMyStreet,
   screen |-> "main", currentReport |-> "null", arg |-> NoLoc]

\* updateUI() / updateButtonState(): the button is enabled with a photo, or
\* with the GPS and the camera ready
updateUI(v, u) ==
  IF v = FixMyStreet THEN u
  ELSE [u EXCEPT !.disabled = ~(u.hasPhoto \/ (u.gpsReady /\ u.cameraReady))]

\* the page once the camera runs, a fix (if any) has arrived and, where the
\* variant's button allowed it, a photo was taken
UiWithPhoto(v, l) ==
  LET taken == l.known \/ v = FixMyStreet
  IN updateUI(v, [UiStart(v) EXCEPT !.stream = TRUE,
                                     !.cameraReady = v # FixMyStreet,
                                     !.gpsReady = v # FixMyStreet /\ l.known,
                                     !.photoData = taken, !.hasPhoto = taken])

\* startCamera() / startCam(): getUserMedia resolves
startCamera ==
  /\ ~ui.stream
  /\ ui' = updateUI(variant, [ui EXCEPT !.stream = TRUE,
                                        !.cameraReady = variant # FixMyStreet])
  /\ UNCHANGED <<variant, workerVars, loc, sendPc, rev, srch, interp, addr, posted>>

\* the fixes the geolocation callbacks deliver
UiLocs == {Fix(340500, -1182500), Fix(340501, -1182499)}

\* a success callback of getCurrentPosition or watchPosition: the first one
\* sets gpsReady in POTHOLE LA and Pothole Hunter; Fix My Street only
\* assigns loc
positionCallback ==
  /\ \E l \in UiLocs : loc' = l
  /\ ui' = IF variant = FixMyStreet \/ ui.gpsReady THEN ui
           ELSE updateUI(variant, [ui EXCEPT !.gpsReady = TRUE])
  /\ UNCHANGED <<variant, workerVars, sendPc, rev, srch, interp, addr, posted>>

\* takePhoto(): POTHOLE LA and Fix My Street return without a stream, Pothole
\* Hunter also without gpsReady
takePhoto ==
  /\ ui.stream
  /\ variant = PotholeHunter => ui.gpsReady
  /\ ui' = updateUI(variant, [ui EXCEPT !.photoData = TRUE, !.hasPhoto = TRUE])
  /\ UNCHANGED <<variant, workerVars, loc, sendPc, rev, srch, interp, addr, posted>>

\* and Pothole Hunter return at once, Fix My Street resolves the default
\* address and posts
sendReport ==
  /\ sendPc = "idle"
  /\ ui.photoData
  /\ loc.known \/ variant = FixMyStreet
  /\ IF loc.known
     THEN /\ sendPc' = "reverse"
          /\ UNCHANGED <<addr, posted>>
     ELSE afterAddress(Returned(DefaultAddress(variant)))
  /\ ui' = [ui EXCEPT !.arg = loc]
  /\ UNCHANGED <<variant, workerVars, loc, rev, srch, interp>>

\* the reverse lookup settles: getAddress goes on to the street search, or
\* settles and sendReport goes on
reverseSettles(r) ==
  /\ rev' = r
  /\ IF needsSearch(variant, r)
     THEN /\ sendPc' = "search"
          /\ UNCHANGED <<addr, posted>>
     ELSE afterAddress(resolveAddress(variant, ui.arg, r))

reverseDone ==
  /\ sendPc = "reverse"
  /\ rev.kind # "silent"
  /\ \E r \in RevOutcomes : reverseSettles(r)
  /\ UNCHANGED <<variant, workerVars, loc, srch, interp, ui>>

\* the street search settles: interpolateAddress settles, then getAddress,
\* and sendReport goes on
\* Math.floor(Math.random() * 50) at the ends of its range, and the sign a
\* floating-point sum of exact value 0 can have
JitterValues == {0, JitterRange - 1}
FloatSigns == {-1, 0, 1}

searchSettles(s, jitter, fp) ==
  LET streetNum == interpolateAddress(ui.arg, roadOf(rev), s, jitter, fp)
  IN /\ srch' = s
     /\ interp' = Interp(streetNum)
     /\ afterAddress(getAddress(rev, streetNum))

searchDone ==
  /\ sendPc = "search"
  /\ srch.kind # "silent"
  /\ \E s \in SearchOutcomes, jitter \in JitterValues, fp \in FloatSigns :
       searchSettles(s, jitter, fp)
  /\ UNCHANGED <<variant, workerVars, loc, rev, ui>>

\* outcomes of POST /report as the page sees them: a JSON answer with
\* success true, a JSON answer with success false (status 500), or a rejected
\* fetch or res.json()
PostOutcomes == {"success", "failure", "network"}

\* the POST settles: currentReport is the answer unless the try block threw,
\* and after the catch block the success screen replaces the main screen
postDone ==
  /\ sendPc = "posting"
  /\ \E outcome \in PostOutcomes :
       ui' = [ui EXCEPT !.currentReport =
                          IF outcome = "network" THEN @ ELSE outcome,
                        !.screen = "success"]
  /\ sendPc' = "idle"
  /\ UNCHANGED <<variant, workerVars, loc, rev, srch, interp, addr, posted>>

\* reset(), the handler of again-btn on the success screen
reset ==
  /\ ui.screen = "success"
  /\ ui' = updateUI(variant, [ui EXCEPT !.hasPhoto = FALSE, !.photoData = FALSE,
                                        !.currentReport = "null",
                                        !.screen = "main"])
  /\ UNCHANGED <<variant, workerVars, loc, sendPc, rev, srch, interp, addr, posted>>

\* captureBtn.onclick / bigBtn.onclick on the main screen:
\* hasPhoto ? sendReport() : takePhoto(), unless the button is disabled
captureBtn_onclick ==
  /\ ui.screen = "main"
  /\ ~ui.disabled
  /\ IF ui.hasPhoto THEN sendReport ELSE takePhoto

\* reverse lookups that lead to no street search: a rejected fetch, and an
\* address with a house number
UiRevOutcomes ==
  {RevFailure("network"),
   [RevFailure("json") EXCEPT !.road = MainSt, !.house_number = <<"1", "2">>]}

\* the reverse lookup of the capture screen's report settles
reverseDoneUi ==
  /\ sendPc = "reverse"
  /\ \E r \in UiRevOutcomes : reverseSettles(r)
  /\ UNCHANGED <<variant, workerVars, loc, srch, interp, ui>>

\* search responses one place longer, every place with a house number
NumberedPlaces == {pl \in PlaceOptions : ~parseInt(pl.house_number).nan}
LongSearchOutcomes ==
  {[kind |-> "list", places |-> ps] : ps \in [1..(MaxPlaces + 1) -> NumberedPlaces]}

\* the street search settles with one of the longer responses
searchDoneLong ==
  /\ sendPc = "search"
  /\ srch.kind # "silent"
  /\ \E s \in LongSearchOutcomes, jitter \in JitterValues, fp \in FloatSigns :
       searchSettles(s, jitter, fp)
  /\ UNCHANGED <<variant, workerVars, loc, rev, ui>>

\* the geocoder never answers the pending request: `await fetch(url)` is called
\* without a signal or a timer, so its promise never settles and no statement
\* of the page runs for it again
geocoderSilent ==
  /\ sendPc \in {"reverse", "search"}
  /\ IF sendPc = "reverse"
     THEN /\ rev.kind # "silent"
          /\ rev' = RevFailure("silent")
          /\ UNCHANGED srch
     ELSE /\ srch.kind # "silent"
          /\ srch' = [kind |-> "silent", places |-> << >>]
          /\ UNCHANGED rev
  /\ UNCHANGED <<variant, workerVars, loc, sendPc, interp, addr, posted, ui>>

\* ------------------------------------------------------------ specification
WorkerInit ==
  /\ clock = Radix - 1
  /\ REPORTS = << >>
  /\ req = [p \in 1..MaxReq |-> IdleRequest]
  /\ lastGet = NoGet

PageIdle ==
  /\ sendPc = "idle"
  /\ rev = NoRev
  /\ srch = NoSearch
  /\ interp = NoInterp
  /\ addr = << >>
  /\ posted = NotPosted

\* the worker serving requests
Init ==
  /\ variant \in Variants
  /\ WorkerInit
  /\ loc = NoLoc
  /\ PageIdle
  /\ ui = UiStart(variant)

Next ==
  \/ \E p \in 1..MaxReq : HandleReportStart(p)
  \/ \E p \in 1..MaxReq, ok \in BOOLEAN : REPORTS_put(p, ok)
  \/ \E p \in 1..MaxReq : HandleReportResume(p)
  \/ \E id \in ProbeIds, kvOk \in BOOLEAN : fetchImage(id, kvOk)
  \/ \E id \in ProbeIds, kvOk \in BOOLEAN : fetchView(id, kvOk)
  \/ Tick

Spec == Init /\ [][Next]_vars

\* the page with a photo taken, sending its report

PageInit ==
  /\ variant \in Variants
  /\ WorkerInit
  /\ loc \in PageLocs \cup {NoLoc}
  /\ PageIdle
  /\ ui = UiWithPhoto(variant, loc)

PageNext ==
  \/ sendReport
  \/ geocoderSilent
  \/ reverseDone
  \/ searchDone

PageSpec == PageInit /\ [][PageNext]_vars

\* getAddress of POTHOLE LA waiting for the street search of a road the
\* reverse lookup returned without a house number
\* street names of each kind the name test of estimateFromBlock tells apart
SunsetBlvd == <<"S","u","n","s","e","t"," ","B","l","v","d">>
SouthMainSt == <<"S"," ","M","a","i","n"," ","S","t">>
StreetNames == {MainSt, OakAve, SunsetBlvd, SouthMainSt}

RoadOnly(name) == [RevFailure("json") EXCEPT !.road = name]

InterpInit ==
  /\ variant = PotholeLA
  /\ WorkerInit
  /\ loc \in PageLocs
  /\ sendPc = "search"
  /\ rev \in {RoadOnly(name) : name \in StreetNames}
  /\ srch = NoSearch
  /\ interp = NoInterp
  /\ addr = << >>
  /\ posted = NotPosted
  /\ ui = [UiWithPhoto(variant, loc) EXCEPT !.arg = loc]

\* the capture screen from the page's load on
UiInit ==
  /\ variant \in Variants
  /\ WorkerInit
  /\ loc = NoLoc
  /\ PageIdle
  /\ ui = UiStart(variant)

UiNext ==
  \/ startCamera
  \/ positionCallback
  \/ captureBtn_onclick
  \/ reverseDoneUi
  \/ postDone
  \/ reset

UiSpec == UiInit /\ [][UiNext]_vars

InterpNext == searchDone \/ searchDoneLong

InterpSpec == InterpInit /\ [][InterpNext]_vars

\* =================================================================== claims
Started(p) == req[p].pc # "idle" /\ req[p].id # << >>
Answered(p) == req[p].pc = "done"

\* C1 (as claimed): a POST /report answered {success:false} for a bad body
\* (its put did not reject) has written no record to the store.
C1_FailureWritesNothing ==
  \A p \in 1..MaxReq :
    (Answered(p) /\ ~req[p].resp.success /\ req[p].put # "failed")
      => req[p].put # "ok"

\* C2 (as claimed): any two POST /report calls carrying the same body get two
\* distinct report identifiers, whatever their timing.
C2_AlwaysDistinctIds ==
  \A p, q \in 1..MaxReq :
    (p # q /\ Started(p) /\ Started(q) /\ req[p].body = req[q].body)
      => req[p].id # req[q].id

\* C2 (amended): two POST /report calls get distinct identifiers whenever
\* they read different Date.now() milliseconds or draw different random
\* suffixes; only a same-millisecond, same-suffix pair shares an identifier.
C2_DistinctUnlessSameDraw ==
  \A p, q \in 1..MaxReq :
    (p # q /\ Started(p) /\ Started(q)
       /\ (req[p].now # req[q].now
             \/ slice(req[p].rnd, 2, 6) # slice(req[q].rnd, 2, 6)))
      => req[p].id # req[q].id

C2_Witness ==
  \E p, q \in 1..MaxReq :
    /\ p # q /\ Started(p) /\ Started(q)
    /\ req[p].body = req[q].body
    /\ req[p].now # req[q].now

\* C3 (as claimed): no step changes or removes the value stored under an
\* identifier.
C3_NeverOverwritten ==
  [][\A k \in DOMAIN REPORTS : k \in DOMAIN REPORTS' /\ REPORTS'[k] = REPORTS[k]]_vars

\* C3 (amended): no step removes a stored record, GET /image and GET /view
\* change nothing, and the value under an identifier changes only by the put
\* of a POST /report that generated that same identifier.
C3_OverwrittenOnlyByEqualId ==
  [][\A k \in DOMAIN REPORTS :
       /\ k \in DOMAIN REPORTS'
       /\ REPORTS'[k] # REPORTS[k] =>
            \E p \in 1..MaxReq :
              req[p].pc = "putting" /\ req'[p].put = "ok" /\ req[p].id = k]_vars

C3_Witness ==
  /\ Cardinality(DOMAIN REPORTS) = 2
  /\ lastGet.route # "none" /\ lastGet.found

\* C4: every {success:true} response of POST /report follows a completed put
\* of that request, and the returned reportId is a key of the store.
C4_SuccessAfterPut ==
  \A p \in 1..MaxReq :
    req[p].resp.success =>
      /\ req[p].put = "ok"
      /\ req[p].resp.reportId = req[p].id
      /\ req[p].resp.reportId \in DOMAIN REPORTS

C4_Witness == \E p \in 1..MaxReq : Answered(p) /\ req[p].resp.success

\* C5: when the store's put rejects, the request is answered {success:false}
\* with an error status and names no identifier.
C5_PutFailureIsFailure ==
  \A p \in 1..MaxReq :
    (Answered(p) /\ req[p].put = "failed") =>
      /\ ~req[p].resp.success
      /\ req[p].resp.status >= 400
      /\ req[p].resp.reportId = << >>

C5_Witness ==
  \E p \in 1..MaxReq :
    Answered(p) /\ req[p].put = "failed" /\ ~ThrowsAfterPut(variant, req[p].body)

\* C6: in the variants that route /image/ and /view/, a GET naming an
\* identifier absent from the store is answered 404 when the store's get
\* resolves, and a get that rejects is never answered 404.
C6_NotFoundIs404 ==
  (lastGet.route # "none" /\ HasRoutes(variant)) =>
    /\ (lastGet.kvOk /\ ~lastGet.found) => lastGet.status = 404
    /\ ~lastGet.kvOk => lastGet.status # 404

C6_Witness ==
  lastGet.route = "image" /\ lastGet.kvOk /\ ~lastGet.found /\ lastGet.status = 404

OwnRecord(p) ==
  /\ req[p].resp.reportId \in DOMAIN REPORTS
  /\ REPORTS[req[p].resp.reportId].value
       = fullReport(variant, req[p].body, req[p].id, req[p].now, req[p].origin)

\* C7 (as claimed): under every interleaving, the reportId of each successful
\* response maps in the store to the record built from that request's body.
C7_OwnRecordAlways ==
  \A p \in 1..MaxReq : req[p].resp.success => OwnRecord(p)

\* C7 (amended): under every interleaving, the reportId of each successful
\* response maps in the store to the record built from that request's body,
\* unless another request generated the same identifier (same millisecond,
\* same random suffix).
C7_OwnRecordUnlessSameId ==
  \A p \in 1..MaxReq :
    (req[p].resp.success /\ \A q \in 1..MaxReq : q # p => req[q].id # req[p].id)
      => OwnRecord(p)

C7_Witness ==
  \E p, q \in 1..MaxReq :
    /\ p # q
    /\ req[p].resp.success /\ req[q].resp.success
    /\ req[p].body # req[q].body
    /\ req[p].id # req[q].id

RevFailed == rev.kind \in {"network", "parse", "null"}
SearchFailed == srch.kind \in {"network", "parse", "notarray"}

\* C8: whatever the reverse lookup and the street search produced, the address
\* getAddress / reverseGeo resolves to is a non-empty string.
C8_AddressNonEmpty ==
  sendPc \notin {"idle", "reverse", "search"} =>
    sendPc = "posting" /\ addr # << >>

C8_Witness ==
  /\ sendPc = "posting"
  /\ rev.kind = "json" /\ roadOf(rev) = << >> /\ rev.display_name = << >>
  /\ addr = DefaultAddress(variant)

\* C9: for every search outcome interpolateAddress settles to a returned,
\* non-empty string and never to a thrown error.
C9_InterpolatorTotal ==
  interp.called => ~interp.threw /\ interp.text # << >>

C9_Witness ==
  /\ interp.called
  /\ srch.kind = "list" /\ Len(srch.places) = 2
  /\ srch.places[1].lat = srch.places[2].lat
  /\ srch.places[1].lon = srch.places[2].lon
  /\ interp.text = NaNText

\* C10: once a reverse lookup or a street search has failed, the page has
\* still resolved a non-empty address and posted the report with it: the
\* variant's default after a failed reverse lookup, an address that starts
\* with the grid estimate after a failed street search.
C10_GeocoderFailureSwallowed ==
  (RevFailed \/ SearchFailed) =>
    /\ sendPc = "posting"
    /\ posted.sent /\ posted.address = addr /\ addr # << >>
    /\ RevFailed => addr = DefaultAddress(variant)
    /\ SearchFailed =>
         /\ EndsWith(interp.text, ApproxTag)
         /\ SubSeq(addr, 1, Len(interp.text)) = interp.text

C10_Witness ==
  /\ SearchFailed /\ sendPc = "posting" /\ posted.sent
  /\ EndsWith(interp.text, ApproxTag)

\* the candidates the interpolator kept from the search's list
Cands == withNumbers(srch.places)
\* whether text is a grid estimate of the page's fix and road: the rounded
\* block estimate plus some jitter, then the tag
IsGridEstimate(text) ==
  /\ ~parseInt(text).nan
  /\ parseInt(text).val - roundToTen(blockEstimate(loc, roadOf(rev)))
       \in 0..(JitterRange - 1)
  /\ text = toString(parseInt(text).val) \o ApproxTag

\* C11: while sendReport waits for the geocoder, whatever the geocoder does
\* (a lookup that never responds included), some step of the page that carries
\* sendReport on is still possible: the flow is never blocked for good.
C11_NeverBlocksOnGeocoding ==
  sendPc \in {"reverse", "search"} => ENABLED PageNext

\* C12: when the search returned a list with fewer than two entries that carry
\* an integer house number, the interpolator's result is the grid estimate of
\* the fix and the road, which ends with " (approx)".
C12_FewCandidatesUseGrid ==
  (interp.called /\ srch.kind = "list" /\ Len(Cands) < 2) =>
    /\ IsGridEstimate(interp.text)
    /\ EndsWith(interp.text, ApproxTag)

C12_Witness ==
  /\ interp.called /\ srch.kind = "list"
  /\ Len(srch.places) = 2 /\ Len(Cands) = 1
  /\ EndsWith(interp.text, ApproxTag)

\* the fix is the midpoint of candidates a and b
AtMidpoint(a, b) ==
  /\ 2 * loc.lat = a.lat + b.lat
  /\ 2 * loc.lng = a.lng + b.lng

\* Math.round((a + b) / 2)
roundedAverage(a, b) == (a + b + 1) \div 2

\* C13: with exactly two candidates at distinct coordinates and with distinct
\* numbers, and the fix at the midpoint of the two, the result is the rounded
\* average of the two numbers, or one more after the parity adjustment.
C13_MidpointIsAverage ==
  (/\ interp.called /\ srch.kind = "list" /\ Len(Cands) = 2
   /\ dist2(Cands[1], Cands[2]) # 0
   /\ Cands[1].num # Cands[2].num
   /\ AtMidpoint(Cands[1], Cands[2])) =>
    interp.text \in {toString(roundedAverage(Cands[1].num, Cands[2].num)),
                     toString(roundedAverage(Cands[1].num, Cands[2].num) + 1)}

C13_Witness ==
  /\ interp.called /\ srch.kind = "list" /\ Len(Cands) = 2
  /\ dist2(Cands[1], Cands[2]) # 0
  /\ Cands[1].num = 201 /\ Cands[2].num = 100
  /\ AtMidpoint(Cands[1], Cands[2])
  /\ interp.text = toString(152)

\* the interpolator fell back to estimateFromBlock
UsedGrid == interp.called /\ (srch.kind # "list" \/ Len(Cands) < 2)

LinksOf(r) ==
  IF HasRoutes(variant) THEN <<r.googleMapsUrl, r.imageUrl, r.viewUrl>>
  ELSE <<r.googleMapsUrl>>
\* no other request generated the identifier of request p
SoleOwner(p) == \A q \in 1..MaxReq : q # p => req[q].id # req[p].id

\* C15 (as claimed): whatever happened since, the record retrieved under the
\* reportId of a successful response carries the links that response returned.
C15_LinksAlwaysStable ==
  \A p \in 1..MaxReq :
    req[p].resp.success =>
      LinksOf(REPORTS[req[p].resp.reportId].value) = LinksOf(req[p].resp)

\* C15 (amended): the record retrieved under the reportId of a successful
\* response carries the links that response returned, unless another request
\* generated the same identifier; the map link is built from the coordinate
\* alone, the image and view links from the request's origin and the
\* identifier.
C15_LinksStableUnlessSameId ==
  \A p \in 1..MaxReq :
    (req[p].resp.success /\ SoleOwner(p)) =>
      /\ req[p].resp.reportId \in DOMAIN REPORTS
      /\ LinksOf(REPORTS[req[p].resp.reportId].value) = LinksOf(req[p].resp)
      /\ \A q \in 1..MaxReq :
           (req[q].resp.success /\ req[q].body.location = req[p].body.location)
             => req[q].resp.googleMapsUrl = req[p].resp.googleMapsUrl
      /\ HasRoutes(variant) =>
           /\ req[p].resp.imageUrl = req[p].origin \o <<"/image/">> \o req[p].id
           /\ req[p].resp.viewUrl = req[p].origin \o <<"/view/">> \o req[p].id

C15_Witness ==
  \E p, q \in 1..MaxReq :
    /\ p # q /\ HasRoutes(variant)
    /\ req[p].resp.success /\ req[q].put = "ok" /\ req[q].pc = "done"
    /\ req[p].id # req[q].id
    /\ req[p].body.location # req[q].body.location
    /\ lastGet.route = "view" /\ lastGet.found /\ lastGet.status = 200
    /\ LinksOf(REPORTS[req[p].resp.reportId].value) = LinksOf(req[p].resp)

\* C16: the image and view links of a successful response have the path
\* /image/<reportId> and /view/<reportId>, and the worker, given those paths,
\* routes them to the record stored under that reportId: neither answer is 404.
C16_LinksResolve ==
  \A p \in 1..MaxReq :
    (req[p].resp.success /\ HasRoutes(variant)) =>
      LET img == pathname(req[p].resp.imageUrl)
          view == pathname(req[p].resp.viewUrl)
      IN /\ startsWith(img, "/image/") /\ routedId(img) = req[p].resp.reportId
         /\ startsWith(view, "/view/") /\ routedId(view) = req[p].resp.reportId
         /\ \A kvOk \in BOOLEAN :
              /\ serveImage(REPORTS, routedId(img), kvOk) # 404
              /\ serveReportPage(REPORTS, routedId(view), kvOk) # 404

C16_Witness ==
  \E p \in 1..MaxReq :
    /\ req[p].resp.success /\ variant = PotholeHunter
    /\ req[p].origin = OtherOrigin
    /\ lastGet.route = "image" /\ lastGet.found /\ lastGet.status = 200

\* whether text t occurs in text s
Contains(s, t) ==
  \E i \in 1..(Len(s) - Len(t) + 1) : SubSeq(s, i, i + Len(t) - 1) = t

\* "lat,lng" as the client wrote the two coordinates of the model
LatLngText(l) ==
  IF l = GoodLocation
  THEN <<"3","4",".","0","5",",","-","1","1","8",".","2","5">>
  ELSE <<"3","4",".","1",",","-","1","1","8",".","3","0","0","1">>

\* C17: the formal letter of a successful response contains the submitted
\* address verbatim, and its map link contains "lat,lng" of the submitted
\* coordinate (34.05,-118.25 and 34.1,-118.3001 in the model).
C17_LetterAndMapLink ==
  \A p \in 1..MaxReq :
    req[p].resp.success =>
      /\ Contains(req[p].resp.formalLetter, req[p].body.address.text)
      /\ Contains(req[p].resp.googleMapsUrl, LatLngText(req[p].body.location))

C17_Witness ==
  \E p \in 1..MaxReq :
    /\ req[p].resp.success
    /\ req[p].body.location = GoodLocation
    /\ req[p].body.address.text = <<"123 Main St", ",", " Los Angeles", ",", " CA">>
    /\ req[p].resp.googleMapsUrl
         = <<"https://www.google.com/maps?q=">>
             \o <<"3","4",".","0","5",",","-","1","1","8",".","2","5">>

\* C18: every entry of the store was written with a time-to-live of
\* 15,552,000 seconds (180 days) under the identifier its record carries.
C18_TtlIs180Days ==
  \A k \in DOMAIN REPORTS :
    /\ REPORTS[k].expirationTtl = 15552000
    /\ REPORTS[k].value.id = k

C18_Witness ==
  /\ variant = FixMyStreet
  /\ \E p \in 1..MaxReq : req[p].put = "ok" /\ req[p].id \in DOMAIN REPORTS

\* the candidates by their distance to the fix: p1 is Nearest[1], p2 Nearest[2]
Nearest == sortByDist(Cands, loc)
\* the interpolation branch ran: a list with two candidates or more
Interpolated == interp.called /\ srch.kind = "list" /\ Len(Cands) >= 2

\* (l - p1) . (p2 - p1), clamped to [0, |p2 - p1|^2]: the projection of the fix
\* on the segment from p1 to p2, times the squared length of the segment
clampedDot(l, p1, p2) ==
  Max(0, Min(dist2(p2, p1),
             (l.lat - p1.lat) * (p2.lat - p1.lat) + (l.lng - p1.lng) * (p2.lng - p1.lng)))

\* Math.round(n1 + (n2 - n1) * t) for the clamped projection t of the fix
projectedEstimate(l, p1, p2) ==
  (2 * (p1.num * dist2(p2, p1) + (p2.num - p1.num) * clampedDot(l, p1, p2))
     + dist2(p2, p1)) \div (2 * dist2(p2, p1))

\* C19 (as claimed): with p1 and p2 at distinct coordinates, the estimate is the
\* number at the clamped projection of the fix on the segment p1 -> p2 (p1's
\* number for a fix beyond p1), or one more after the parity adjustment.
C19_RatioIsProjection ==
  (Interpolated /\ dist2(Nearest[1], Nearest[2]) # 0) =>
    interp.text \in {toString(projectedEstimate(loc, Nearest[1], Nearest[2])),
                     toString(projectedEstimate(loc, Nearest[1], Nearest[2]) + 1)}

\* C20 (as claimed): when p1 and p2 have the same coordinates the result is
\* p1's number, wherever the fix is.
C20_SamePointGivesP1 ==
  (Interpolated /\ dist2(Nearest[1], Nearest[2]) = 0) =>
    interp.text = toString(Nearest[1].num)

\* the cross product of p1 -> p2 and p1 -> fix: its sign is the side of the fix
crossOf(l, p1, p2) ==
  (p2.lat - p1.lat) * (l.lng - p1.lng) - (p2.lng - p1.lng) * (l.lat - p1.lat)

\* the estimate before the parity adjustment
Unadjusted ==
  roundInterpolated(Nearest[1].num, Nearest[2].num,
                    dist2(loc, Nearest[1]), dist2(Nearest[2], Nearest[1]))

\* C21 (as claimed): with p1 and p2 at distinct coordinates, the result is odd
\* for a fix strictly on the positive side of p1 -> p2, even for a fix strictly
\* on the negative side (negative numbers included), and the unadjusted
\* estimate for a fix on the line.
C21_ParityMatchesSide ==
  (Interpolated /\ dist2(Nearest[1], Nearest[2]) # 0) =>
    LET n == parseInt(interp.text).val
        c == crossOf(loc, Nearest[1], Nearest[2])
    IN /\ c > 0 => n % 2 = 1
       /\ c < 0 => n % 2 = 0
       /\ c = 0 => n = Unadjusted

\* C22: with two candidates or more, p1 and p2 are candidates of the response,
\* p1 is no farther from the fix than p2, and every other candidate is at least
\* as far from the fix as p2.
C22_TwoNearest ==
  Interpolated =>
    /\ Len(Nearest) = Len(Cands)
    /\ \A c \in {Cands[i] : i \in 1..Len(Cands)} :
         Cardinality({i \in 1..Len(Cands) : Cands[i] = c})
           = Cardinality({i \in 1..Len(Nearest) : Nearest[i] = c})
    /\ dist2(Nearest[1], loc) <= dist2(Nearest[2], loc)
    /\ \A i \in 3..Len(Nearest) : dist2(Nearest[2], loc) <= dist2(Nearest[i], loc)

C22_Witness ==
  /\ Interpolated /\ Len(Cands) = 3
  /\ dist2(Cands[1], loc) > dist2(Cands[2], loc)
  /\ dist2(Cands[2], loc) > dist2(Cands[3], loc)
  /\ Nearest[1] = Cands[3] /\ Nearest[2] = Cands[2]

\* the reverse lookup answered with components that name no street
NoStreetName == rev.kind = "json" /\ rev.road = << >> /\ rev.street = << >>

\* C23 (as claimed): in every variant, when the reverse lookup names no street
\* the address is the display string, or the variant's fixed default when the
\* display string is empty.
C23_NoStreetFallsBack ==
  (sendPc = "posting" /\ NoStreetName) =>
    addr = (IF rev.display_name # << >> THEN rev.display_name
            ELSE DefaultAddress(variant))

\* the street name the variant's composer reads
StreetName == IF variant = PotholeLA THEN roadOf(rev) ELSE rev.road
\* the address was composed from a reverse lookup that names a street
Composed == sendPc = "posting" /\ rev.kind = "json" /\ StreetName # << >>
\* the segments after the first: locality, city, region code, postal code
TailSegments ==
  join(filterBoolean(<<IF rev.neighbourhood # << >> THEN rev.neighbourhood
                       ELSE rev.suburb,
                       IF rev.city # << >> THEN rev.city ELSE <<"Los Angeles">>,
                       <<"CA">>,
                       rev.postcode>>), Comma)
\* what the address has before ", " and the tail segments
FirstSegment == SubSeq(addr, 1, Len(addr) - Len(TailSegments) - 1)
\* the house number the composer has: the geocoder's, or the interpolator's
NumberUsed == IF interp.called THEN interp.text ELSE rev.house_number

\* C24 (as claimed): in every variant the composed address is its first segment,
\* ", " and the tail segments in their order, the first segment being the house
\* number, a space and the street name when the geocoder gave a house number,
\* and else holding the street name.
C24_JoinOrderEveryVariant ==
  Composed =>
    /\ EndsWith(addr, Comma \o TailSegments)
    /\ IF rev.house_number # << >>
       THEN FirstSegment = rev.house_number \o <<" ">> \o StreetName
       ELSE Contains(FirstSegment, StreetName)

\* C24 (amended): the composed address is its first segment, ", " and the tail
\* segments in their order. The first segment is: in POTHOLE LA the house
\* number (the geocoder's or the interpolator's), a space and the street name;
\* in Pothole Hunter the geocoder's house number, a space and the street name,
\* or without a house number the last four digits of the longitude, a space,
\* the street name and " (approx)"; in Fix My Street the house number, ", "
\* and the street name, or the street name alone.
C24_JoinOrderByVariant ==
  Composed =>
    /\ EndsWith(addr, Comma \o TailSegments)
    /\ FirstSegment =
         (IF variant = PotholeLA
          THEN NumberUsed \o <<" ">> \o StreetName
          ELSE IF variant = PotholeHunter
          THEN (IF rev.house_number # << >>
                THEN rev.house_number \o <<" ">> \o StreetName
                ELSE toString(Abs(loc.lng) % 10000) \o <<" ">> \o StreetName
                       \o ApproxTag)
          ELSE (IF rev.house_number # << >>
                THEN rev.house_number \o Comma \o StreetName
                ELSE StreetName))

C24_Witness ==
  /\ Composed /\ variant = PotholeLA /\ interp.called
  /\ rev.neighbourhood # << >> /\ rev.suburb # << >>
  /\ rev.city = << >> /\ rev.postcode # << >>
  /\ addr = interp.text \o <<" ", "M","a","i","n"," ","S","t", ", ", "Downtown",
                             ", ", "Los Angeles", ", ", "CA", ", ", "90012">>

\* s begins with t
HasPrefix(s, t) == Len(t) <= Len(s) /\ SubSeq(s, 1, Len(t)) = t

\* the street search was started: its request is in flight or has settled
SearchStarted == sendPc = "search" \/ srch.kind # "none" \/ interp.called

\* C25: the interpolator and its street search run only in POTHOLE LA for a
\* reverse lookup that names a street and gives no house number, and they run
\* whenever that is so; a house number of the geocoder is used as it is with no
\* search; with no street name nothing is interpolated or estimated and the
\* address is the display string or the default.
C25_SearchOnlyWithoutNumber ==
  /\ SearchStarted =>
       /\ variant = PotholeLA /\ rev.kind = "json"
       /\ roadOf(rev) # << >> /\ rev.house_number = << >>
  /\ (sendPc = "posting" /\ variant = PotholeLA /\ rev.kind = "json") =>
       /\ (roadOf(rev) # << >> /\ rev.house_number = << >>) => interp.called
       /\ (roadOf(rev) # << >> /\ rev.house_number # << >>) =>
            /\ ~SearchStarted
            /\ HasPrefix(addr, rev.house_number \o <<" ">> \o roadOf(rev))
       /\ roadOf(rev) = << >> =>
            /\ ~SearchStarted
            /\ addr \in {rev.display_name, DefaultAddress(PotholeLA)}

C25_Witness ==
  /\ sendPc = "posting" /\ variant = PotholeLA /\ rev.kind = "json"
  /\ rev.road = << >> /\ rev.street # << >> /\ rev.house_number # << >>
  /\ ~SearchStarted
  /\ HasPrefix(addr, <<"1", "2", " ", "O","a","k"," ","A","v","e">>)

\* a name with a leading directional word or a last word that goes with
\* north-south streets
OrientedNS(streetName) ==
  LET low == toLowerCase(streetName)
  IN \/ \E cue \in {<<"n">>, <<"s">>, <<"n","o","r","t","h">>, <<"s","o","u","t","h">>} :
          HasPrefix(low, cue \o <<" ">>)
     \/ \E suffix \in {<<"a","v","e">>, <<"a","v","e","n","u","e">>, <<"w","a","y">>,
                        <<"p","l","a","c","e">>, <<"p","l">>} :
          EndsWith(low, <<" ">> \o suffix)

\* C26: the grid estimate is computed from the fix's longitude distance to the
\* downtown reference when the street name has a leading directional word or
\* a north-south suffix, and from its latitude distance for every other name.
C26_AxisByName ==
  UsedGrid =>
    LET delta == IF OrientedNS(roadOf(rev)) THEN Abs(loc.lng - dtLng)
                 ELSE Abs(loc.lat - dtLat)
        estimate == 100 + (100 * delta) \div blockSize
        base == ((estimate + 5) \div 10) * 10
    IN /\ ~parseInt(interp.text).nan
       /\ parseInt(interp.text).val - base \in 0..(JitterRange - 1)

\* the fields of a record are the server's: the key, the fixed status, the
\* map link of the record's coordinate
ServerFields(key) ==
  LET r == REPORTS[key].value
  IN /\ r.id = key
     /\ r.status = "pending_submission"
     /\ r.googleMapsUrl
          = <<"https://www.google.com/maps?q=">>
              \o coordText(r.report.location, r.report.location.lat) \o <<",">>
              \o coordText(r.report.location, r.report.location.lng)
     /\ r.submittedAt >= Radix - 1

\* the image and view links of a record are the ones the worker derives from
\* the request's origin and the key
ServerLinks(key) ==
  LET r == REPORTS[key].value
  IN \E origin \in {MainOrigin, OtherOrigin} :
       /\ r.imageUrl = origin \o <<"/image/">> \o key
       /\ r.viewUrl = origin \o <<"/view/">> \o key

\* C27 (as claimed): in every variant every stored record has the key as its
\* id, the status "pending_submission" and the server's links, whatever
\* fields of those names the body had: the image and view links are the
\* derived ones, or none where the variant derives none.
C27_ServerFieldsEveryVariant ==
  \A key \in DOMAIN REPORTS :
    /\ ServerFields(key)
    /\ IF variant = FixMyStreet
       THEN /\ REPORTS[key].value.imageUrl = << >>
            /\ REPORTS[key].value.viewUrl = << >>
       ELSE ServerLinks(key)

\* C27 (amended): every stored record has the key as its id, the status
\* "pending_submission", the server's map link and the server's time; in
\* POTHOLE LA and Pothole Hunter its image and view links are the derived
\* ones, and in Fix My Street, which derives none, they are the body's.
C27_ServerFieldsByVariant ==
  \A key \in DOMAIN REPORTS :
    /\ ServerFields(key)
    /\ IF variant = FixMyStreet
       THEN /\ REPORTS[key].value.imageUrl = REPORTS[key].value.report.extra.imageUrl
            /\ REPORTS[key].value.viewUrl = REPORTS[key].value.report.extra.viewUrl
       ELSE ServerLinks(key)

C27_Witness ==
  \E key \in DOMAIN REPORTS :
    /\ variant = PotholeLA
    /\ REPORTS[key].value.report.extra = ForgedExtra
    /\ REPORTS[key].value.id = key
    /\ REPORTS[key].value.id # ForgedExtra.id
    /\ REPORTS[key].value.status = "pending_submission"
    /\ REPORTS[key].value.imageUrl = MainOrigin \o <<"/image/">> \o key

\* C28: the success screen is shown only when the server answered the POST
\* with success.
C28_SuccessScreenOnlyAfterSuccess ==
  ui.screen = "success" => ui.currentReport = "success"

\* C29: in every variant a photo exists only once a fix exists (hasPhoto
\* implies a non-null loc and, where the variant has it, gpsReady), and the
\* coordinate of a posted report is one that a position callback delivered.
C29_OnlyRealFixes ==
  /\ ui.hasPhoto =>
       /\ loc.known
       /\ variant # FixMyStreet => ui.gpsReady
  /\ posted.sent => posted.location \in UiLocs

\* C30: when the number is interpolated between two candidates at distinct
\* coordinates, it is at least the smaller of their two numbers and at most
\* the larger plus 1.
C30_WithinKnownNumbers ==
  (Interpolated /\ dist2(Nearest[1], Nearest[2]) # 0) =>
    LET n == parseInt(interp.text)
        lo == Min(Nearest[1].num, Nearest[2].num)
        hi == Max(Nearest[1].num, Nearest[2].num)
    IN /\ ~n.nan
       /\ lo <= n.val
       /\ n.val <= hi + 1

C30_Witness ==
  /\ Interpolated /\ dist2(Nearest[1], Nearest[2]) # 0
  /\ Nearest[1].num = 100 /\ Nearest[2].num = 100
  /\ crossOf(loc, Nearest[1], Nearest[2]) > 0
  /\ parseInt(interp.text).val = 101

====
